---- MODULE Spec2Model ----
(***************************************************************************)
(* Model of src/worker.js: a Telegram relay bot running as a Cloudflare     *)
(* Worker.  End-user messages are forwarded to one administrator with a     *)
(* signed identity tag appended; administrator replies are routed back by   *)
(* extracting that tag; /post broadcasts fan out in batches.                *)
(*                                                                         *)
(* Strings are sequences of one-character strings, so that the regular     *)
(* expressions, split, trim and includes of the source are computed on     *)
(* characters.  A run of literal template characters that contains no      *)
(* bracket, colon, digit, letter, underscore or space is carried as one     *)
(* element (for instance the Chinese words and emoji of the templates).     *)
(***************************************************************************)
EXTENDS Integers, Sequences, FiniteSets, Bags, TLC

----------------------------------------------------------------------------
(* Bounds of the model *)

\* largest number of fragments a user-chosen text is assembled from
MaxFrags == 2
\* length of the longest explicit /post target list
MaxTargets == 11
\* number of invocations of addUserToKV that are started
MaxUpserts == 2
\* largest number of fragments a command text is assembled from
MaxParseFrags == 4

----------------------------------------------------------------------------
(* Characters and string helpers *)

DigitChars == {"0", "1", "2", "3", "4", "5", "6", "7", "8", "9"}
HexChars == DigitChars \cup {"a", "b", "c", "d", "e", "f"}
LetterChars ==
    {"a", "b", "c", "d", "e", "f", "g", "h", "i", "j", "k", "l", "m",
     "n", "o", "p", "q", "r", "s", "t", "u", "v", "w", "x", "y", "z",
     "A", "B", "C", "D", "E", "F", "G", "H", "I", "J", "K", "L", "M",
     "N", "O", "P", "Q", "R", "S", "T", "U", "V", "W", "X", "Y", "Z"}
\* the class \w of a JavaScript regular expression
WordChars == LetterChars \cup DigitChars \cup {"_"}
\* the characters String.prototype.trim removes (those the model can hold)
SpaceChars == {" ", "\n", "\t"}

\* the backtick character, which the string syntax here cannot hold
Backtick == "<backtick>"

\* the value of an absent (undefined) or empty string: both are falsy
NoText == <<>>
\* the null result of extractUserChatId
Null == <<"null">>

\* s.substring(from - 1) with 1-based from
Drop(s, from) == SubSeq(s, from, Len(s))

\* whether pat occurs in s at 1-based position p
MatchAt(s, p, pat) ==
    /\ p >= 1
    /\ p + Len(pat) - 1 <= Len(s)
    /\ \A i \in 1..Len(pat) : s[p + i - 1] = pat[i]

\* String.prototype.startsWith
StartsWith(s, pat) == MatchAt(s, 1, pat)

\* String.prototype.includes
Includes(s, pat) == \E p \in 1..Len(s) : MatchAt(s, p, pat)

\* number of consecutive characters of class cls in s from position p
RECURSIVE RunLen(_, _, _)
RunLen(s, p, cls) ==
    IF p <= Len(s) /\ s[p] \in cls THEN 1 + RunLen(s, p + 1, cls) ELSE 0

\* String.prototype.trim
RECURSIVE TrimLeft(_)
TrimLeft(s) ==
    IF s # <<>> /\ Head(s) \in SpaceChars THEN TrimLeft(Tail(s)) ELSE s

RECURSIVE TrimRight(_)
TrimRight(s) ==
    IF s # <<>> /\ s[Len(s)] \in SpaceChars
    THEN TrimRight(SubSeq(s, 1, Len(s) - 1))
    ELSE s

Trim(s) == TrimRight(TrimLeft(s))

\* String.prototype.split on a one-character separator
RECURSIVE Split(_, _)
Split(s, sep) ==
    LET n == RunLen(s, 1, {c \in {s[i] : i \in 1..Len(s)} : c # sep})
    IN  IF n = Len(s)
        THEN <<s>>
        ELSE <<SubSeq(s, 1, n)>> \o Split(Drop(s, n + 2), sep)

\* Array.prototype.join
RECURSIVE Join(_, _)
Join(parts, sep) ==
    IF parts = <<>> THEN <<>>
    ELSE IF Len(parts) = 1 THEN parts[1]
    ELSE parts[1] \o sep \o Join(Tail(parts), sep)

\* concatenation of a sequence of strings
RECURSIVE Concat(_)
Concat(parts) == IF parts = <<>> THEN <<>> ELSE Head(parts) \o Concat(Tail(parts))

\* decimal rendering of a number, as template interpolation and toString give
DigitOf(d) ==
    CASE d = 0 -> "0" [] d = 1 -> "1" [] d = 2 -> "2" [] d = 3 -> "3"
      [] d = 4 -> "4" [] d = 5 -> "5" [] d = 6 -> "6" [] d = 7 -> "7"
      [] d = 8 -> "8" [] d = 9 -> "9"

RECURSIVE NatToStr(_)
NatToStr(n) ==
    IF n < 10 THEN <<DigitOf(n)>> ELSE NatToStr(n \div 10) \o <<DigitOf(n % 10)>>

ToStr(n) == IF n < 0 THEN <<"-">> \o NatToStr(0 - n) ELSE NatToStr(n)

----------------------------------------------------------------------------
(* Identity tag codec *)

\* length of the hex signature kept from the digest
SigLen == 16

\* values of env.USER_ID_SECRET; NoSecret is the unset variable
NoSecret == "none"
Secrets == {"k1", "k2"}

\* The keyed digest (HMAC-SHA-256, or SHA-256 of the fallback string when no
\* secret is set) rendered as lowercase hex.  The digest is modelled by an
\* injective encoding of (key, data): distinct keys or identifiers give
\* distinct digests, which is the collision freedom the scheme relies on.
\* The first hex character encodes the key, the following ones the
\* identifier, closed by "e" and padded with "0".
KeyHex(secret) ==
    CASE secret = "k1" -> "b" [] secret = "k2" -> "c" [] OTHER -> "d"

DigestHex(userId, secret) ==
    <<KeyHex(secret)>>
      \o [i \in 1..Len(userId) |-> IF userId[i] = "-" THEN "a" ELSE userId[i]]
      \o <<"e">>
      \o [i \in 1..SigLen |-> "0"]

generateUserIdSignature(userId, secret) == SubSeq(DigestHex(userId, secret), 1, SigLen)

verifyUserIdSignature(userId, signature, secret) ==
    signature = generateUserIdSignature(userId, secret)

TagOpen == <<"[", "U", "S", "E", "R", ":">>

createSecureUserTag(userId, secret) ==
    TagOpen \o userId \o <<":">> \o generateUserIdSignature(userId, secret) \o <<"]">>

\* /\[USER:(\d+):([a-f0-9]{16})\]/ anchored at position p
SecureMatchAt(s, p) ==
    LET d == RunLen(s, p + 6, DigitChars)
        q == p + 6 + d
    IN  /\ MatchAt(s, p, TagOpen)
        /\ d >= 1
        /\ MatchAt(s, q, <<":">>)
        /\ q + SigLen + 1 <= Len(s)
        /\ \A i \in 1..SigLen : s[q + i] \in HexChars
        /\ s[q + SigLen + 1] = "]"

\* a faulty variant of LegacyMatchAt: what follows the tag is not looked at
LegacyMatchAtNoLookahead(s, p) ==
    LET d == RunLen(s, p + 6, DigitChars)
    IN  MatchAt(s, p, TagOpen) /\ d >= 1 /\ MatchAt(s, p + 6 + d, <<"]">>)

\* /\[USER:(\d+)\](?![:\w])/ anchored at position p
LegacyMatchAt(s, p) ==
    LET d == RunLen(s, p + 6, DigitChars)
        q == p + 6 + d
    IN  /\ MatchAt(s, p, TagOpen)
        /\ d >= 1
        /\ MatchAt(s, q, <<"]">>)
        /\ (q + 1 <= Len(s) => s[q + 1] \notin (WordChars \cup {":"}))

\* String.prototype.match without the g flag: the leftmost match, 0 for none
FirstMatch(s, pattern) ==
    LET At(p) == IF pattern = "secure" THEN SecureMatchAt(s, p)
                 ELSE LegacyMatchAt(s, p)
    IN  IF \E p \in 1..Len(s) : At(p)
        THEN CHOOSE p \in 1..Len(s) : At(p) /\ \A r \in 1..(p - 1) : ~At(r)
        ELSE 0

\* capture group 1 of either pattern matched at p
MatchedId(s, p) == SubSeq(s, p + 6, p + 5 + RunLen(s, p + 6, DigitChars))

\* capture group 2 of the signed pattern matched at p
MatchedSig(s, p) ==
    LET q == p + 6 + RunLen(s, p + 6, DigitChars)
    IN  SubSeq(s, q + 1, q + SigLen)

\* a faulty variant of extractUserChatId: the legacy pattern is tried first
extractUserChatIdLegacyFirst(messageText, secret) ==
    IF messageText = NoText THEN Null
    ELSE LET secureMatch == FirstMatch(messageText, "secure")
             legacyMatch == FirstMatch(messageText, "legacy")
         IN  IF legacyMatch # 0
             THEN MatchedId(messageText, legacyMatch)
             ELSE IF secureMatch # 0
                     /\ verifyUserIdSignature(MatchedId(messageText, secureMatch),
                                              MatchedSig(messageText, secureMatch),
                                              secret)
                  THEN MatchedId(messageText, secureMatch)
                  ELSE Null

extractUserChatId(messageText, secret) ==
    IF messageText = NoText THEN Null
    ELSE LET secureMatch == FirstMatch(messageText, "secure")
             legacyMatch == FirstMatch(messageText, "legacy")
         IN  IF secureMatch # 0
             THEN IF verifyUserIdSignature(MatchedId(messageText, secureMatch),
                                           MatchedSig(messageText, secureMatch),
                                           secret)
                  THEN MatchedId(messageText, secureMatch)
                  ELSE Null
             ELSE IF legacyMatch # 0 /\ secureMatch = 0
                  THEN MatchedId(messageText, legacyMatch)
                  ELSE Null

----------------------------------------------------------------------------
(* Command parser *)

\* the target specification parsePostTargets returns: the string 'all' or an
\* array of identifiers
AllTargets == [kind |-> "all", ids |-> <<>>]
ListTargets(ids) == [kind |-> "list", ids |-> ids]

\* a faulty variant of IsDigits: the test is not anchored at the end
IsDigitsPrefix(s) == s # <<>> /\ s[1] \in DigitChars

\* the test /^\d+$/
IsDigits(s) == s # <<>> /\ \A i \in 1..Len(s) : s[i] \in DigitChars

\* Array.prototype.filter with the test /^\d+$/
RECURSIVE FilterDigits(_)
FilterDigits(parts) ==
    IF parts = <<>> THEN <<>>
    ELSE (IF IsDigits(Head(parts)) THEN <<Head(parts)>> ELSE <<>>)
           \o FilterDigits(Tail(parts))

parsePostTargets(commandText) ==
    IF commandText = NoText THEN [userIds |-> ListTargets(<<>>), message |-> NoText]
    ELSE LET parts == Split(commandText, " ")
         IN  IF Len(parts) < 2
             THEN [userIds |-> ListTargets(<<>>), message |-> NoText]
             ELSE LET targetsStr == parts[1]
                      message == Join(Tail(parts), <<" ">>)
                      pieces == Split(targetsStr, ",")
                  IN  IF targetsStr = <<"a", "l", "l">>
                      THEN [userIds |-> AllTargets, message |-> message]
                      ELSE [userIds |->
                               ListTargets(FilterDigits(
                                   [i \in 1..Len(pieces) |-> Trim(pieces[i])])),
                            message |-> message]

----------------------------------------------------------------------------
(* Directory store: the list kept under the key user_list *)

\* the cap on stored records
MaxUsers == 1000

\* the stable descending sort by lastActive of Array.prototype.sort: the
\* records more recent than a pivot, those as recent, in their order, and
\* the older ones
RECURSIVE SortByRecency(_)
SortByRecency(users) ==
    IF Len(users) <= 1 THEN users
    ELSE LET pivot == users[(Len(users) + 1) \div 2].lastActive
             Newer(u) == u.lastActive > pivot
             Same(u) == u.lastActive = pivot
             Older(u) == u.lastActive < pivot
         IN  SortByRecency(SelectSeq(users, Newer))
               \o SelectSeq(users, Same)
               \o SortByRecency(SelectSeq(users, Older))

\* getUsersFromKV: the stored list, or the empty list when the store is not
\* bound, the read fails, or nothing is stored
getUsersFromKV(e, stored, readOk) ==
    IF ~e.USER_STORAGE THEN <<>>
    ELSE IF ~readOk THEN <<>>
    ELSE stored

\* a faulty variant of Upserted: the record is appended without a search
UpsertedAlwaysAppended(users, chatId, userInfo, t) ==
    Append(users, [chatId |-> chatId, userName |-> userInfo.userName,
                   userId |-> userInfo.userId, lastActive |-> t])

\* the list before the cap is applied: the record of chatId replaced in
\* place, or appended
Upserted(users, chatId, userInfo, t) ==
    LET found == {i \in 1..Len(users) : users[i].chatId = chatId}
        userData == [chatId |-> chatId, userName |-> userInfo.userName,
                     userId |-> userInfo.userId, lastActive |-> t]
    IN  IF found # {}
        THEN LET existingIndex == CHOOSE i \in found : \A j \in found : i <= j
             IN  [users EXCEPT ![existingIndex] = userData]
        ELSE Append(users, userData)

\* a faulty variant of Capped: the list is cut without being sorted
CappedUnsorted(upserted) ==
    IF Len(upserted) > MaxUsers THEN SubSeq(upserted, 1, MaxUsers) ELSE upserted

\* the list addUserToKV writes, computed from the list it read
Capped(upserted) ==
    IF Len(upserted) > MaxUsers
    THEN SubSeq(SortByRecency(upserted), 1, MaxUsers)
    ELSE upserted

\* addUserToKV: the value of the stored list after the upsert
addUserToKV(chatId, userInfo, e, stored, t, readOk, putOk) ==
    IF ~e.USER_STORAGE THEN stored
    ELSE LET users == getUsersFromKV(e, stored, readOk)
         IN  IF putOk THEN Capped(Upserted(users, chatId, userInfo, t))
             ELSE stored

----------------------------------------------------------------------------
(* Transport adapter: the requests sent to the Telegram API *)

\* what awaiting a request can give: a result with ok true, a result with ok
\* false, or an exception
Outcomes == {"ok", "notok", "throw"}

sendMessage(chatId, text, replyTo) ==
    [method |-> "sendMessage", chat_id |-> chatId, text |-> text,
     from_chat_id |-> NoText, message_id |-> 0, reply_to_message_id |-> replyTo]

\* the caption travels in the field text
copyMessage(chatId, fromChatId, messageId, caption) ==
    [method |-> "copyMessage", chat_id |-> chatId, text |-> caption,
     from_chat_id |-> fromChatId, message_id |-> messageId,
     reply_to_message_id |-> 0]

\* error.message of a failed request
ErrorMessage == <<"Telegram API error">>

----------------------------------------------------------------------------
(* Message texts *)

CmdStart == <<"/", "s", "t", "a", "r", "t">>
CmdStatus == <<"/", "s", "t", "a", "t", "u", "s">>
CmdHelp == <<"/", "h", "e", "l", "p">>
CmdUsers == <<"/", "u", "s", "e", "r", "s">>
CmdPost == <<"/", "p", "o", "s", "t">>

WelcomeText == <<"{welcome: send your message, it is forwarded to the admin}">>
DeliveredText == <<"{your message was sent to the admin}">>
FailedText == <<"{sorry, sending failed, try again later}">>
AdminPanelText(tracking) ==
    <<"{admin panel} tracking: ", IF tracking THEN "enabled" ELSE "disabled">>
HelpText == <<"{help}">>
PostUsageText == <<"{post usage}">>
PostNoMessageText == <<"{please provide the message to broadcast}">>
PostAllNeedsTrackingText == <<"{'all' needs user tracking}">>
PostNoValidIdText == <<"{no valid user id found}">>
UsersDisabledText == <<"{user tracking is not enabled}">>
UsersEmptyText == <<"{no user records yet}">>
UnrecognizedText == <<"{cannot identify the user; reply to a forwarded message}">>
HintText == <<"{hint: reply to a user message or use /post}">>
ReplyPrefix == <<"*Admin reply:*">>
BroadcastPrefix == <<"*Admin broadcast:*">>

\* toLocaleString of a time
TimeText(t) == ToStr(t) \o <<":", "0", "0">>

StatusText(userCount, t) ==
    <<"{status} tracked users: ">> \o userCount \o <<"\n", "time: ">> \o TimeText(t)

PostStartingText(targetCount) ==
    <<"{broadcast starting} targets: ">> \o ToStr(targetCount)

MediaStartingText(targetCount) ==
    <<"{media broadcast starting} targets: ">> \o ToStr(targetCount)

ReplySentText(userChatId) ==
    <<"{reply sent to user} (ID: ">> \o userChatId \o <<")">>

ReplyFailedText == <<"{reply failed}: ", "unknown error">>

ProcessingErrorText == <<"{error while processing the message}: ">> \o ErrorMessage

WebhookErrorText == <<"{bot error}: ", "Unexpected token">>

\* the diagnostic pushed for a failed recipient
DiagHead == "user "
Diagnostic(chatId) == <<DiagHead>> \o chatId \o <<": ">> \o ErrorMessage

\* the number of deliveries issued together
batchSize == 10

\* the number of diagnostics the report shows
MaxShownErrors == 5

\* a faulty variant of ReportText: every diagnostic is shown
ReportTextAllErrors(res) ==
    <<"{broadcast report} ok: ">> \o ToStr(res.success)
      \o <<"\n", "failed: ">> \o ToStr(res.failed) \o <<"\n", "\n">>
      \o (IF Len(res.errors) > 0
          THEN <<"details:", "\n">> \o Join(res.errors, <<"\n">>)
          ELSE <<"{all sent}">>)

\* the completion report of a text broadcast
ReportText(res) ==
    <<"{broadcast report} ok: ">> \o ToStr(res.success)
      \o <<"\n", "failed: ">> \o ToStr(res.failed) \o <<"\n", "\n">>
      \o (IF Len(res.errors) > 0
          THEN <<"details:", "\n">>
                 \o Join(SubSeq(res.errors, 1,
                                IF Len(res.errors) < MaxShownErrors
                                THEN Len(res.errors) ELSE MaxShownErrors),
                         <<"\n">>)
                 \o (IF Len(res.errors) > MaxShownErrors
                     THEN <<"\n", "... more: ">>
                            \o ToStr(Len(res.errors) - MaxShownErrors)
                     ELSE <<>>)
          ELSE <<"{all sent}">>)

MediaReportText(res) ==
    <<"{media broadcast done} ok: ">> \o ToStr(res.success)
      \o <<"\n", "failed: ">> \o ToStr(res.failed)

\* the number of users /users lists
UsersShown == 20

RECURSIVE UserLines(_, _)
UserLines(users, index) ==
    IF users = <<>> THEN <<>>
    ELSE ToStr(index) \o <<". ">> \o Head(users).userName
           \o <<"\n", "ID: ", Backtick>> \o ToStr(Head(users).chatId)
           \o <<Backtick, "\n", "last active: ">> \o TimeText(Head(users).lastActive)
           \o (IF Len(users) > 1 THEN <<"\n", "\n">> ELSE <<>>)
           \o UserLines(Tail(users), index + 1)

UsersText(users) ==
    LET sorted == SortByRecency(users)
        recentUsers == SubSeq(sorted, 1,
                              IF Len(sorted) < UsersShown THEN Len(sorted)
                              ELSE UsersShown)
    IN  <<"{users} ">> \o ToStr(Len(recentUsers)) \o <<"/">> \o ToStr(Len(users))
          \o <<"\n", "\n">> \o UserLines(recentUsers, 1)
          \o (IF Len(users) > UsersShown THEN <<"\n", "\n", "...">> ELSE <<>>)

\* createUserInfo: the display name, the identifiers and the header block
createUserInfo(m, t) ==
    LET userName == IF m.username # NoText THEN m.username
                    ELSE IF m.first_name # NoText THEN m.first_name
                    ELSE <<"U", "n", "k", "n", "o", "w", "n">>
    IN  [userName |-> userName,
         userId |-> m.from_id,
         chatId |-> m.chat_id,
         time |-> TimeText(t),
         header |-> <<"*", "From: ">> \o userName
                      \o <<"*", "\n", "ID: ", Backtick>> \o ToStr(m.from_id)
                      \o <<Backtick, "\n", "Time: ">> \o TimeText(t)
                      \o <<"\n", "--------">>]

\* the text relayed to the administrator for a text message
ForwardText(userInfo, text, secureUserTag) ==
    userInfo.header \o <<"\n", "*Content:*", "\n">> \o text
      \o <<"\n", "\n", Backtick>> \o secureUserTag \o <<Backtick>>

\* the caption of the copy relayed for a message without text
ForwardCaption(userInfo, caption, secureUserTag) ==
    userInfo.header \o <<"\n">>
      \o (IF caption # NoText
          THEN <<"*Caption:* ">> \o caption \o <<"\n", "\n">>
          ELSE <<>>)
      \o <<Backtick>> \o secureUserTag \o <<Backtick>>

----------------------------------------------------------------------------
(* State *)

VARIABLES
    env,            \* the Worker's environment bindings
    request,        \* the webhook request being served
    message,        \* update.message
    user_list,      \* the value stored under the key user_list
    now,            \* the clock read by new Date()
    pcW,            \* position of handleWebhook
    response,       \* status of the HTTP response returned, 0 while none
    pc,             \* position of the task handed to ctx.waitUntil
    calls,          \* the requests issued to the Telegram API, in order
    forwardResult,  \* handleUserMessage: result of the forward
    replyResult,    \* handleAdminMessage: result of the routed reply
    userChatId,     \* handleAdminMessage: the recipient extracted
    userIds,        \* broadcastMessage: the target specification
    postMessage,    \* broadcastMessage: the payload
    isMedia,        \* broadcastMessage: copy a message instead of sending text
    mediaMessageId, \* broadcastMessage: mediaOptions.messageId
    targetUserIds,  \* broadcastMessage: the resolved identifier list
    i,              \* broadcastMessage: offset of the current batch
    inflight,       \* broadcastMessage: deliveries of the batch not settled
    results,        \* broadcastMessage: success, failed, errors
    pauses,         \* broadcastMessage: pacing delays taken
    writers,        \* addUserToKV: the invocations in progress
    arg,            \* the arguments of a call of a pure function
    ret             \* the value the call returned

vars == <<env, request, message, user_list, now, pcW, response, pc, calls,
          forwardResult, replyResult, userChatId, userIds, postMessage,
          isMedia, mediaMessageId, targetUserIds, i, inflight, results, pauses,
          writers, arg, ret>>

handlerVars == <<forwardResult, replyResult, userChatId>>
broadcastVars == <<userIds, postMessage, isMedia, mediaMessageId, targetUserIds,
                   i, inflight, results, pauses>>
inputVars == <<env, request, message, now>>
webhookVars == <<pcW, response>>
directoryVars == <<writers>>
functionVars == <<arg, ret>>

----------------------------------------------------------------------------
(* Inputs *)

\* env.ADMIN_CHAT_ID and the chats end-users write from; a negative
\* identifier is a group chat
AdminChat == 9
UserChats == {1, 2, -3}

Hi == <<"h", "i">>
Bob == <<"b", "o", "b">>
VictimId == <<"2">>

\* the legacy unsigned tag
LegacyTag(id) == TagOpen \o id \o <<"]">>

\* a tag of the signed form whose signature no secret produces
ForgedTag(id) == TagOpen \o id \o <<":">> \o [k \in 1..SigLen |-> "0"] \o <<"]">>

\* all concatenations of at most MaxFrags fragments
TextsOf(frags) ==
    {Concat(fs) : fs \in UNION {[1..n -> frags] : n \in 0..MaxFrags}}

\* what an end-user can type: plain text, tags naming another user (legacy or
\* with a made-up signature), pieces of a tag, and the tag of the user's own
\* chat
UserFrags(chat, secret) ==
    {Hi, LegacyTag(VictimId), ForgedTag(VictimId), TagOpen, <<":">>,
     createSecureUserTag(ToStr(chat), secret)}

\* what a message the administrator replies to can hold
ReplyFrags ==
    {Hi, LegacyTag(VictimId), ForgedTag(VictimId), <<":">>,
     createSecureUserTag(<<"1">>, "k1"), createSecureUserTag(<<"2">>, "k1"),
     createSecureUserTag(ToStr(-3), "k1")}

NoReply == [present |-> FALSE, text |-> NoText, caption |-> NoText, message_id |-> 0]
Reply(text, caption) ==
    [present |-> TRUE, text |-> text, caption |-> caption, message_id |-> 5]

\* a replied-to media item without tag, and a forwarded user message
MediaReply == Reply(NoText, <<"p", "i", "c">>)
TaggedReply == Reply(Hi \o <<"\n">> \o createSecureUserTag(<<"1">>, "k1"), NoText)

Msg(chat, from, username, first_name, text, caption, reply) ==
    [valid |-> TRUE, chat_id |-> chat, from_id |-> from, username |-> username,
     first_name |-> first_name, text |-> text, caption |-> caption,
     message_id |-> 7, reply_to_message |-> reply]

Env(secret, tracking, storage, webhookSecret) ==
    [ADMIN_CHAT_ID |-> ToStr(AdminChat), USER_ID_SECRET |-> secret,
     ENABLE_USER_TRACKING |-> tracking, USER_STORAGE |-> storage,
     WEBHOOK_SECRET |-> webhookSecret]

\* directories earlier upserts have left
Dir0 == <<>>
Dir2 == <<[chatId |-> 1, userName |-> Bob, userId |-> 1, lastActive |-> 1],
          [chatId |-> 2, userName |-> Hi, userId |-> 2, lastActive |-> 2]>>

Config(e, dir, m) == [env |-> e, user_list |-> dir, message |-> m]

\* the text or the caption of an end-user message
UserBodies(chat, secret) ==
    UNION {{<<t, NoText>> : t \in (TextsOf(UserFrags(chat, secret)) \ {NoText})
                                    \cup {CmdStart}},
           {<<NoText, c>> : c \in TextsOf(UserFrags(chat, secret))}}

\* end-user messages with chosen text, caption and display name
UserContentConfigs ==
    UNION {{Config(Env(sc[2], FALSE, FALSE, FALSE), Dir0,
                   Msg(sc[1], IF sc[1] < 0 THEN 1 ELSE sc[1], name[1], name[2],
                       body[1], body[2], NoReply)) :
              name \in {<<Bob, NoText>>, <<NoText, LegacyTag(VictimId)>>},
              body \in UserBodies(sc[1], sc[2])} :
           sc \in UserChats \X {"k1", NoSecret}}

\* end-user messages with user tracking enabled
UserTrackingConfigs ==
    {Config(Env("k1", TRUE, storage, FALSE), dir,
            Msg(chat, IF chat < 0 THEN 1 ELSE chat, NoText, NoText,
                text, NoText, NoReply)) :
       storage \in BOOLEAN, dir \in {Dir0, Dir2}, chat \in UserChats,
       text \in {Hi, CmdStart}}

AdminMsg(text, caption, reply) ==
    Msg(AdminChat, AdminChat, <<"a", "d", "m">>, NoText, text, caption, reply)

\* the administrator's informational commands and plain messages
AdminCommandConfigs ==
    {Config(Env("k1", tracking, storage, FALSE), dir, AdminMsg(text, NoText, reply)) :
       tracking \in BOOLEAN, storage \in BOOLEAN, dir \in {Dir0, Dir2},
       text \in {CmdStart, CmdStatus, CmdHelp, CmdUsers, Hi, NoText},
       reply \in {NoReply, TaggedReply}}

LongTargets == [k \in 1..MaxTargets |-> IF k <= 2 THEN <<"2">> ELSE <<"1">>]

\* a target list that fills count batches exactly
FullBatches(count) == [k \in 1..count * batchSize |-> <<"1">>]

PostText(targetsStr, payload) == CmdPost \o <<" ">> \o targetsStr \o <<" ">> \o payload

PostTexts ==
    {CmdPost,
     CmdPost \o <<" ">>,
     CmdPost \o <<" ", "1">>,
     CmdPost \o <<" ", "a", "l", "l">>,
     PostText(<<"1">>, Hi),
     PostText(<<"1", ",", "2">>, <<"a", " ", "b">>),
     PostText(<<"2", ",", "1", ",", "1">>, Hi),
     PostText(<<"x", ",", "1">>, Hi),
     PostText(<<"x", ",", "-", "3">>, Hi),
     PostText(<<"a", "l", "l">>, Hi),
     CmdPost \o <<"a", "l", "l", " ">> \o Hi,
     PostText(Join(LongTargets, <<",">>), Hi),
     PostText(Join(FullBatches(1), <<",">>), Hi),
     PostText(Join(FullBatches(2), <<",">>), Hi)}

\* /post commands, alone or typed as a reply
AdminPostConfigs ==
    {Config(Env("k1", kv[1], kv[2], FALSE), kv[3], AdminMsg(text, NoText, reply)) :
       kv \in {<<FALSE, FALSE, Dir0>>, <<TRUE, TRUE, Dir2>>, <<TRUE, TRUE, Dir0>>,
               <<TRUE, FALSE, Dir2>>},
       text \in PostTexts,
       reply \in {NoReply, MediaReply, TaggedReply}}

\* replies of the administrator to messages of any content
AdminReplyConfigs ==
    {Config(Env(secret, FALSE, FALSE, FALSE), Dir0,
            AdminMsg(body[1], body[2],
                     IF inCaption THEN Reply(NoText, t) ELSE Reply(t, NoText))) :
       secret \in {"k1", "k2"},
       body \in {<<Hi, NoText>>, <<NoText, Hi>>, <<NoText, NoText>>},
       inCaption \in BOOLEAN,
       t \in TextsOf(ReplyFrags)}

\* messages outside the administrator's chat that look like the
\* administrator's: commands, replies to forwarded or media messages, sent by
\* an end-user, by a member of a group, or by the administrator's own account
\* in a group
UserCommandConfigs ==
    {Config(Env("k1", tracking, tracking, FALSE), Dir2,
            Msg(who[1], who[2], Bob, NoText, text, NoText, reply)) :
       tracking \in BOOLEAN,
       who \in {<<2, 2>>, <<-3, 1>>, <<-3, AdminChat>>},
       text \in {Hi, CmdStatus, CmdHelp, CmdUsers, CmdPost,
                 PostText(<<"a", "l", "l">>, Hi), PostText(<<"1">>, Hi)},
       reply \in {NoReply, MediaReply, TaggedReply}}

\* a message without sender
InvalidMessage == [Msg(1, 1, Bob, NoText, Hi, NoText, NoReply) EXCEPT !.valid = FALSE]

\* an update whose message has no sender
InvalidConfigs ==
    {Config(Env("k1", FALSE, FALSE, FALSE), Dir0, InvalidMessage)}

Configs ==
    UserContentConfigs \cup UserTrackingConfigs \cup UserCommandConfigs
      \cup AdminCommandConfigs
      \cup AdminPostConfigs \cup AdminReplyConfigs \cup InvalidConfigs

NoRequest == [secretOk |-> TRUE, body |-> "json", hasMessage |-> TRUE]

NoResults == [success |-> 0, failed |-> 0, errors |-> <<>>]

\* no invocation of addUserToKV besides the one of the message handled
NoWriters == <<>>

\* no call of a pure function, and no value returned yet
NoCall == [fn |-> "none"]
NoReturn == [returned |-> FALSE, value |-> NoText]
Return(value) == [returned |-> TRUE, value |-> value]

InitLocals ==
    /\ calls = <<>>
    /\ forwardResult = "none"
    /\ replyResult = "none"
    /\ userChatId = Null
    /\ userIds = ListTargets(<<>>)
    /\ postMessage = NoText
    /\ isMedia = FALSE
    /\ mediaMessageId = 0
    /\ targetUserIds = <<>>
    /\ i = 0
    /\ inflight = EmptyBag
    /\ results = NoResults
    /\ pauses = 0
    /\ now = 3
    /\ writers = NoWriters
    /\ ret = NoReturn

\* one message handed to handleMessage
Init ==
    /\ \E c \in Configs :
          /\ env = c.env
          /\ user_list = c.user_list
          /\ message = c.message
    /\ request = NoRequest
    /\ pcW = "none"
    /\ response = 0
    /\ pc = "h_msg"
    /\ arg = NoCall
    /\ InitLocals

----------------------------------------------------------------------------
(* handleMessage *)

\* where a handler ends after the notice of its catch block: the inner
\* try/catch swallows a failure of the notice
AfterNotice(o) == "done"

Issue(call) == calls' = Append(calls, call)

\* a faulty variant of HandleMessage: the administrator is recognised by the
\* account that wrote the message, not by the chat it was written in
HandleMessageByFromId ==
    /\ pc = "h_msg"
    /\ pc' = IF ~message.valid THEN "done"
             ELSE IF ToStr(message.from_id) = env.ADMIN_CHAT_ID THEN "a_main"
             ELSE "u_track"
    /\ UNCHANGED <<inputVars, directoryVars, functionVars, webhookVars, user_list, calls, handlerVars,
                   broadcastVars>>

HandleMessage ==
    /\ pc = "h_msg"
    /\ pc' = IF ~message.valid THEN "done"
             ELSE IF ToStr(message.chat_id) = env.ADMIN_CHAT_ID THEN "a_main"
             ELSE "u_track"
    /\ UNCHANGED <<inputVars, directoryVars, functionVars, webhookVars, user_list, calls, handlerVars,
                   broadcastVars>>

----------------------------------------------------------------------------
(* handleUserMessage *)

UserInfo == createUserInfo(message, now)

\* the optional upsert of the sender into the directory
UserTrack ==
    /\ pc = "u_track"
    /\ \E readOk \in BOOLEAN, putOk \in BOOLEAN :
          user_list' = IF env.ENABLE_USER_TRACKING
                       THEN addUserToKV(UserInfo.chatId, UserInfo, env, user_list,
                                        now, readOk, putOk)
                       ELSE user_list
    /\ pc' = "u_main"
    /\ UNCHANGED <<inputVars, directoryVars, functionVars, webhookVars, calls, handlerVars, broadcastVars>>

\* a faulty variant of IsUserStart: the command is compared in the wrong case
IsUserStartWrongCase(text) == text = <<"/", "S", "T", "A", "R", "T">>

\* the test that ends handleUserMessage with the welcome reply
IsUserStart(text) == text = CmdStart

\* /start: the welcome reply, nothing is forwarded
UserStart ==
    /\ pc = "u_main"
    /\ IsUserStart(message.text)
    /\ Issue(sendMessage(ToStr(UserInfo.chatId), WelcomeText, 0))
    /\ \E o \in Outcomes : pc' = IF o = "throw" THEN "u_catch" ELSE "done"
    /\ UNCHANGED <<inputVars, directoryVars, functionVars, webhookVars, user_list, handlerVars, broadcastVars>>

\* the request that relays a message to the administrator
ForwardCall(m, e, t) ==
    LET userInfo == createUserInfo(m, t)
        secureUserTag == createSecureUserTag(ToStr(userInfo.chatId), e.USER_ID_SECRET)
    IN  IF m.text # NoText
        THEN sendMessage(e.ADMIN_CHAT_ID, ForwardText(userInfo, m.text, secureUserTag), 0)
        ELSE copyMessage(e.ADMIN_CHAT_ID, ToStr(userInfo.chatId), m.message_id,
                         ForwardCaption(userInfo, m.caption, secureUserTag))

\* where handleUserMessage continues after the forward gave outcome o
AfterForward(o) ==
    CASE o = "throw" -> "u_catch"
      [] o = "ok" -> "u_ack"
      [] OTHER -> "done"

UserForward ==
    /\ pc = "u_main"
    /\ ~IsUserStart(message.text)
    /\ Issue(ForwardCall(message, env, now))
    /\ \E o \in Outcomes :
          /\ forwardResult' = o
          /\ pc' = AfterForward(o)
    /\ UNCHANGED <<inputVars, directoryVars, functionVars, webhookVars, user_list, replyResult, userChatId,
                   broadcastVars>>

\* the delivery acknowledgment
UserAck ==
    /\ pc = "u_ack"
    /\ Issue(sendMessage(ToStr(UserInfo.chatId), DeliveredText, 0))
    /\ \E o \in Outcomes : pc' = IF o = "throw" THEN "u_catch" ELSE "done"
    /\ UNCHANGED <<inputVars, directoryVars, functionVars, webhookVars, user_list, handlerVars, broadcastVars>>

\* the catch block: the failure notice, its own failure only logged
UserCatch ==
    /\ pc = "u_catch"
    /\ Issue(sendMessage(ToStr(UserInfo.chatId), FailedText, 0))
    /\ \E o \in Outcomes : pc' = AfterNotice(o)
    /\ UNCHANGED <<inputVars, directoryVars, functionVars, webhookVars, user_list, handlerVars, broadcastVars>>

----------------------------------------------------------------------------
(* handleAdminMessage *)

IsPost(text) == text # NoText /\ StartsWith(text, CmdPost)

\* one informational message to the administrator, then return
AdminSay(text, replyTo) ==
    /\ Issue(sendMessage(env.ADMIN_CHAT_ID, text, replyTo))
    /\ \E o \in Outcomes : pc' = IF o = "throw" THEN "a_catch" ELSE "done"
    /\ UNCHANGED <<inputVars, directoryVars, functionVars, webhookVars, user_list, handlerVars, broadcastVars>>

AdminStart ==
    /\ pc = "a_main"
    /\ message.text = CmdStart
    /\ AdminSay(AdminPanelText(env.ENABLE_USER_TRACKING), 0)

AdminStatus ==
    /\ pc = "a_main"
    /\ message.text = CmdStatus
    /\ \E readOk \in BOOLEAN :
          AdminSay(StatusText(IF env.ENABLE_USER_TRACKING
                              THEN ToStr(Len(getUsersFromKV(env, user_list, readOk)))
                              ELSE <<"{tracking not enabled}">>,
                              now), 0)

AdminHelp ==
    /\ pc = "a_main"
    /\ message.text = CmdHelp
    /\ AdminSay(HelpText, 0)

\* the text after the command word
PostCommandText(text) == Trim(Drop(text, 6))

\* a faulty variant of PostError: the empty target list is not rejected
PostErrorNoIdCheck(text, e) ==
    LET commandText == PostCommandText(text)
        parsed == parsePostTargets(commandText)
    IN  IF commandText = NoText THEN PostUsageText
        ELSE IF parsed.message = NoText THEN PostNoMessageText
        ELSE IF parsed.userIds.kind = "all" /\ ~e.ENABLE_USER_TRACKING
             THEN PostAllNeedsTrackingText
        ELSE NoText

\* the message of the /post sub-case that ends the command without a
\* broadcast, NoText when the broadcast goes ahead
PostError(text, e) ==
    LET commandText == PostCommandText(text)
        parsed == parsePostTargets(commandText)
    IN  IF commandText = NoText THEN PostUsageText
        ELSE IF parsed.message = NoText THEN PostNoMessageText
        ELSE IF parsed.userIds.kind = "all" /\ ~e.ENABLE_USER_TRACKING
             THEN PostAllNeedsTrackingText
        ELSE IF parsed.userIds.kind = "list" /\ Len(parsed.userIds.ids) = 0
             THEN PostNoValidIdText
        ELSE NoText

\* the number of targets the acknowledgment shows
TargetCount(targets, e, stored, readOk) ==
    IF targets.kind = "all" THEN Len(getUsersFromKV(e, stored, readOk))
    ELSE Len(targets.ids)

\* a text starting with /post: usage, an error, or the text broadcast
AdminPost ==
    /\ pc = "a_main"
    /\ message.text \notin {CmdStart, CmdStatus, CmdHelp}
    /\ IsPost(message.text)
    /\ IF PostError(message.text, env) # NoText
       THEN AdminSay(PostError(message.text, env), message.message_id)
       ELSE LET parsed == parsePostTargets(PostCommandText(message.text))
            IN  /\ \E readOk \in BOOLEAN :
                      Issue(sendMessage(env.ADMIN_CHAT_ID,
                                        PostStartingText(TargetCount(parsed.userIds, env,
                                                                     user_list, readOk)),
                                        message.message_id))
                /\ \E o \in Outcomes : pc' = IF o = "throw" THEN "a_catch" ELSE "b_begin"
                /\ userIds' = parsed.userIds
                /\ postMessage' = parsed.message
                /\ isMedia' = FALSE
                /\ mediaMessageId' = 0
                /\ UNCHANGED <<inputVars, directoryVars, functionVars, webhookVars, user_list, handlerVars,
                               targetUserIds, i, inflight, results, pauses>>

AdminUsers ==
    /\ pc = "a_main"
    /\ message.text = CmdUsers
    /\ IF ~env.ENABLE_USER_TRACKING
       THEN AdminSay(UsersDisabledText, 0)
       ELSE \E readOk \in BOOLEAN :
               LET users == getUsersFromKV(env, user_list, readOk)
               IN  IF Len(users) = 0
                   THEN AdminSay(UsersEmptyText, 0)
                   ELSE AdminSay(UsersText(users), 0)

\* none of the commands matched
NotCommand(text) ==
    /\ text \notin {CmdStart, CmdStatus, CmdHelp, CmdUsers}
    /\ ~IsPost(text)

\* the request that delivers the administrator's reply
ReplyCall(m, e, target) ==
    IF m.text # NoText
    THEN sendMessage(target, ReplyPrefix \o <<"\n", "\n">> \o m.text, 0)
    ELSE copyMessage(target, e.ADMIN_CHAT_ID, m.message_id,
                     IF m.caption # NoText
                     THEN ReplyPrefix \o <<"\n", "\n">> \o m.caption
                     ELSE ReplyPrefix)

\* a faulty variant of ReplyTarget: the identifier of a signed-form tag is
\* taken without verifying its signature
ReplyTargetUnverified(repliedMessage, e) ==
    LET text == IF repliedMessage.text # NoText THEN repliedMessage.text
                ELSE repliedMessage.caption
        secureMatch == FirstMatch(text, "secure")
    IN  IF secureMatch # 0 THEN MatchedId(text, secureMatch)
        ELSE extractUserChatId(text, e.USER_ID_SECRET)

\* the recipient of a reply, recovered from the replied-to message
ReplyTarget(repliedMessage, e) ==
    extractUserChatId(IF repliedMessage.text # NoText THEN repliedMessage.text
                      ELSE repliedMessage.caption,
                      e.USER_ID_SECRET)

\* a message that replies to another one: a media broadcast when it is a
\* /post on a message without tag, else a routed reply or the warning
AdminReply ==
    /\ pc = "a_main"
    /\ NotCommand(message.text)
    /\ message.reply_to_message.present
    /\ LET repliedMessage == message.reply_to_message
           hasUserTag == \/ Includes(repliedMessage.text, TagOpen)
                         \/ Includes(repliedMessage.caption, TagOpen)
           parsed == parsePostTargets(PostCommandText(message.text))
           target == ReplyTarget(repliedMessage, env)
       IN  IF IsPost(message.text) /\ ~hasUserTag
           THEN IF parsed.message = NoText
                THEN AdminSay(PostNoMessageText, message.message_id)
                ELSE /\ \E readOk \in BOOLEAN :
                           Issue(sendMessage(env.ADMIN_CHAT_ID,
                                             MediaStartingText(
                                                 TargetCount(parsed.userIds, env,
                                                             user_list, readOk)),
                                             message.message_id))
                     /\ \E o \in Outcomes :
                           pc' = IF o = "throw" THEN "a_catch" ELSE "b_begin"
                     /\ userIds' = parsed.userIds
                     /\ postMessage' = parsed.message
                     /\ isMedia' = TRUE
                     /\ mediaMessageId' = repliedMessage.message_id
                     /\ UNCHANGED <<inputVars, directoryVars, functionVars, webhookVars, user_list, handlerVars,
                                    targetUserIds, i, inflight, results, pauses>>
           ELSE IF target = Null
                THEN AdminSay(UnrecognizedText, message.message_id)
                ELSE /\ Issue(ReplyCall(message, env, target))
                     /\ userChatId' = target
                     /\ \E o \in Outcomes :
                           /\ replyResult' = o
                           /\ pc' = IF o = "throw" THEN "a_catch" ELSE "a_confirm"
                     /\ UNCHANGED <<inputVars, directoryVars, functionVars, webhookVars, user_list, forwardResult,
                                    broadcastVars>>

\* the confirmation, or the failure report, after the routed reply
AdminConfirm ==
    /\ pc = "a_confirm"
    /\ AdminSay(IF replyResult = "ok" THEN ReplySentText(userChatId)
                ELSE ReplyFailedText,
                message.message_id)

\* neither a command nor a reply
AdminHint ==
    /\ pc = "a_main"
    /\ NotCommand(message.text)
    /\ ~message.reply_to_message.present
    /\ AdminSay(HintText, message.message_id)

\* the completion report of a broadcast
AdminReport ==
    /\ pc = "a_report"
    /\ AdminSay(IF isMedia THEN MediaReportText(results) ELSE ReportText(results), 0)

\* the catch block: the error notice, its own failure only logged
AdminCatch ==
    /\ pc = "a_catch"
    /\ Issue(sendMessage(env.ADMIN_CHAT_ID, ProcessingErrorText, 0))
    /\ \E o \in Outcomes : pc' = AfterNotice(o)
    /\ UNCHANGED <<inputVars, directoryVars, functionVars, webhookVars, user_list, handlerVars, broadcastVars>>

----------------------------------------------------------------------------
(* broadcastMessage *)

RECURSIVE SeqToBag(_)
SeqToBag(seq) ==
    IF seq = <<>> THEN EmptyBag ELSE SetToBag({Head(seq)}) (+) SeqToBag(Tail(seq))

\* a faulty variant of Batch: the slice takes one identifier too many
BatchOneMore(targets, from) ==
    SubSeq(targets, from + 1,
           IF from + batchSize + 1 < Len(targets) THEN from + batchSize + 1
           ELSE Len(targets))

\* targetUserIds.slice(from, from + batchSize), from counted from 0
Batch(targets, from) ==
    SubSeq(targets, from + 1,
           IF from + batchSize < Len(targets) THEN from + batchSize ELSE Len(targets))

\* the request that delivers the broadcast to one recipient
DeliveryCall(chatId, e, payload, media, messageId) ==
    IF media
    THEN copyMessage(chatId, e.ADMIN_CHAT_ID, messageId,
                     BroadcastPrefix \o <<"\n", "\n">> \o payload)
    ELSE sendMessage(chatId, BroadcastPrefix \o <<"\n", "\n">> \o payload, 0)

\* a faulty variant of ResolveTargets: the stored list is used even when the
\* store is unbound or cannot be read
ResolveTargetsStored(targets, e, stored, readOk) ==
    IF targets.kind = "all"
    THEN [k \in 1..Len(stored) |-> ToStr(stored[k].chatId)]
    ELSE targets.ids

\* the identifier list the broadcast goes to
ResolveTargets(targets, e, stored, readOk) ==
    IF targets.kind = "all"
    THEN LET users == getUsersFromKV(e, stored, readOk)
         IN  [k \in 1..Len(users) |-> ToStr(users[k].chatId)]
    ELSE targets.ids

NoUsersFound == <<"{no users to broadcast to; enable user tracking}">>
NoValidIds == <<"{no valid user id given}">>

BroadcastResolve ==
    /\ pc = "b_begin"
    /\ \E readOk \in BOOLEAN :
          LET resolved == ResolveTargets(userIds, env, user_list, readOk)
          IN  IF Len(resolved) = 0
              THEN /\ results' = [success |-> 0, failed |-> 1,
                                  errors |-> <<IF userIds.kind = "all"
                                               THEN NoUsersFound ELSE NoValidIds>>]
                   /\ pc' = "a_report"
                   /\ UNCHANGED targetUserIds
              ELSE /\ results' = NoResults
                   /\ targetUserIds' = resolved
                   /\ pc' = "b_batch"
    /\ i' = 0
    /\ UNCHANGED <<inputVars, directoryVars, functionVars, webhookVars, user_list, calls, handlerVars, userIds,
                   postMessage, isMedia, mediaMessageId, inflight, pauses>>

\* batch.map: every delivery of the batch is issued, in list order
BroadcastStartBatch ==
    /\ pc = "b_batch"
    /\ LET batch == Batch(targetUserIds, i)
       IN  /\ calls' = calls \o [k \in 1..Len(batch) |->
                                   DeliveryCall(batch[k], env, postMessage, isMedia,
                                                mediaMessageId)]
           /\ inflight' = SeqToBag(batch)
    /\ pc' = "b_wait"
    /\ UNCHANGED <<inputVars, directoryVars, functionVars, webhookVars, user_list, handlerVars, userIds,
                   postMessage, isMedia, mediaMessageId, targetUserIds, i, results,
                   pauses>>

\* the results after the delivery to chatId settled with outcome o
Settled(res, chatId, o) ==
    IF o = "throw"
    THEN [res EXCEPT !.failed = @ + 1, !.errors = Append(@, Diagnostic(chatId))]
    ELSE [res EXCEPT !.success = @ + 1]

\* one delivery of the batch settles, in any order
BroadcastSettle ==
    /\ pc = "b_wait"
    /\ \E chatId \in BagToSet(inflight), o \in Outcomes :
          /\ inflight' = inflight (-) SetToBag({chatId})
          /\ results' = Settled(results, chatId, o)
    /\ UNCHANGED <<inputVars, directoryVars, functionVars, webhookVars, user_list, pc, calls, handlerVars,
                   userIds, postMessage, isMedia, mediaMessageId, targetUserIds, i,
                   pauses>>

\* a faulty variant of MoreBatches: a full final batch is followed by a delay
MoreBatchesInclusive(from, targets) == from + batchSize <= Len(targets)

\* a faulty variant of MoreBatches: the loop bound is off by one
MoreBatchesOffByOne(from, targets) == from + batchSize < Len(targets) - 1

\* whether a pacing delay follows the batch at offset from
MoreBatches(from, targets) == from + batchSize < Len(targets)

\* Promise.allSettled resolves: pause before the next batch, or return
BroadcastBatchDone ==
    /\ pc = "b_wait"
    /\ inflight = EmptyBag
    /\ IF MoreBatches(i, targetUserIds)
       THEN pc' = "b_pause" /\ UNCHANGED i
       ELSE pc' = "a_report" /\ i' = i + batchSize
    /\ UNCHANGED <<inputVars, directoryVars, functionVars, webhookVars, user_list, calls, handlerVars, userIds,
                   postMessage, isMedia, mediaMessageId, targetUserIds, inflight,
                   results, pauses>>

\* the pacing delay elapses
BroadcastPause ==
    /\ pc = "b_pause"
    /\ pauses' = pauses + 1
    /\ i' = i + batchSize
    /\ pc' = "b_batch"
    /\ UNCHANGED <<inputVars, directoryVars, functionVars, webhookVars, user_list, calls, handlerVars, userIds,
                   postMessage, isMedia, mediaMessageId, targetUserIds, inflight,
                   results>>

----------------------------------------------------------------------------
(* Specification of the processing of one message *)

Next ==
    \/ HandleMessage
    \/ UserTrack
    \/ UserStart
    \/ UserForward
    \/ UserAck
    \/ UserCatch
    \/ AdminStart
    \/ AdminStatus
    \/ AdminHelp
    \/ AdminPost
    \/ AdminUsers
    \/ AdminReply
    \/ AdminConfirm
    \/ AdminHint
    \/ AdminReport
    \/ AdminCatch
    \/ BroadcastResolve
    \/ BroadcastStartBatch
    \/ BroadcastSettle
    \/ BroadcastBatchDone
    \/ BroadcastPause

Spec == Init /\ [][Next]_vars

----------------------------------------------------------------------------
(* The directory under several invocations of addUserToKV: each message *)
(* of a tracked user runs one, and nothing orders the invocations of     *)
(* messages handled at the same time                                     *)

\* the invocations that can be in progress together
Writers == {1, 2}

\* an invocation not started; failed tells whether the last one ended in
\* the catch block
IdleWriter ==
    [pc |-> "idle", chatId |-> 0, users |-> <<>>, t |-> 0, runs |-> 0,
     failed |-> FALSE]

\* a directory at the cap, in the order of first contact; the record of
\* chat 671 is the least recently active
DirFull ==
    [k \in 1..MaxUsers |->
       [chatId |-> 100 + k, userName |-> Bob, userId |-> 100 + k,
        lastActive |-> (k * 7 + 3) % MaxUsers]]

\* the chats whose messages are tracked: known ones and new ones
DirChats == {1, 671, 3000, 3001}

\* the invocations started so far
Started == writers[1].runs + writers[2].runs

\* addUserToKV is called: it returns at once when the store is not bound,
\* else it asks the store for the list
DirStart(w) ==
    /\ writers[w].pc = "idle"
    /\ Started < MaxUpserts
    /\ \E chat \in DirChats :
          writers' = [writers EXCEPT ![w] =
                        [@ EXCEPT !.pc = IF env.USER_STORAGE THEN "get" ELSE "idle",
                                  !.chatId = chat,
                                  !.runs = @ + 1]]
    /\ UNCHANGED <<inputVars, functionVars, webhookVars, user_list, pc, calls,
                   handlerVars, broadcastVars>>

\* getUsersFromKV settles and the record is stamped with the clock
DirGet(w) ==
    /\ writers[w].pc = "get"
    /\ \E readOk \in BOOLEAN :
          writers' = [writers EXCEPT ![w] =
                        [@ EXCEPT !.pc = "put",
                                  !.users = getUsersFromKV(env, user_list, readOk),
                                  !.t = now]]
    /\ now' = now + 1
    /\ UNCHANGED <<env, request, message, functionVars, webhookVars, user_list, pc,
                   calls, handlerVars, broadcastVars>>

\* the list the invocation w writes
Written(w) ==
    Capped(Upserted(writers[w].users, writers[w].chatId,
                    [userName |-> Bob, userId |-> writers[w].chatId],
                    writers[w].t))

\* USER_STORAGE.put settles: the whole list is replaced, or the failure is
\* logged and the stored list stays
DirPut(w) ==
    /\ writers[w].pc = "put"
    /\ \E putOk \in BOOLEAN :
          /\ user_list' = IF putOk THEN Written(w) ELSE user_list
          /\ writers' = [writers EXCEPT ![w] =
                           [@ EXCEPT !.pc = "idle", !.users = <<>>, !.t = 0,
                                     !.failed = ~putOk]]
    /\ UNCHANGED <<inputVars, functionVars, webhookVars, pc, calls, handlerVars,
                   broadcastVars>>

InitDirectory ==
    /\ \E storage \in BOOLEAN : env = Env("k1", TRUE, storage, FALSE)
    /\ user_list \in {Dir0, Dir2, DirFull}
    /\ writers = [w \in Writers |-> IdleWriter]
    /\ now = MaxUsers
    /\ message = InvalidMessage
    /\ request = NoRequest
    /\ pcW = "none"
    /\ response = 0
    /\ pc = "idle"
    /\ calls = <<>>
    /\ forwardResult = "none"
    /\ replyResult = "none"
    /\ userChatId = Null
    /\ userIds = ListTargets(<<>>)
    /\ postMessage = NoText
    /\ isMedia = FALSE
    /\ mediaMessageId = 0
    /\ targetUserIds = <<>>
    /\ i = 0
    /\ inflight = EmptyBag
    /\ results = NoResults
    /\ pauses = 0
    /\ arg = NoCall
    /\ ret = NoReturn

NextDirectory ==
    \E w \in Writers :
       \/ DirStart(w)
       \/ DirGet(w)
       \/ DirPut(w)

SpecDirectory == InitDirectory /\ [][NextDirectory]_vars

\* no other invocation is in progress
Alone(w) == \A v \in Writers \ {w} : writers[v].pc = "idle"

\* the invocations of messages handled one after the other
NextUpserts ==
    \E w \in Writers :
       \/ Alone(w) /\ DirStart(w)
       \/ DirGet(w)
       \/ DirPut(w)

SpecUpserts == InitDirectory /\ [][NextUpserts]_vars

----------------------------------------------------------------------------
(* The pure functions, called on their own *)

\* what a command text after /post is made of
ParseFrags ==
    {<<"a", "l", "l">>, <<"1">>, <<"2", "3">>, <<",">>, <<" ">>, <<"x">>, <<"\t">>}

ParseTexts ==
    {Concat(fs) : fs \in UNION {[1..n -> ParseFrags] : n \in 0..MaxParseFrags}}

\* what a message text is made of: plain text, legacy tags, a tag with a
\* made-up signature, and tags signed with either secret or with the
\* fallback digest, for a private chat and for a group chat
ExtractFrags ==
    {Hi, LegacyTag(<<"2">>), LegacyTag(<<"7">>), ForgedTag(<<"2">>)}
      \cup {createSecureUserTag(id, secret) :
              id \in {<<"1">>, ToStr(-3)}, secret \in Secrets \cup {NoSecret}}

Calls ==
    {[fn |-> "parsePostTargets", commandText |-> t] : t \in ParseTexts}
      \cup {[fn |-> "extractUserChatId", messageText |-> t, secret |-> secret] :
              t \in TextsOf(ExtractFrags), secret \in Secrets \cup {NoSecret}}

CallParsePostTargets ==
    /\ arg.fn = "parsePostTargets"
    /\ ~ret.returned
    /\ ret' = Return(parsePostTargets(arg.commandText))
    /\ UNCHANGED <<inputVars, directoryVars, webhookVars, user_list, pc, calls,
                   handlerVars, broadcastVars, arg>>

CallExtractUserChatId ==
    /\ arg.fn = "extractUserChatId"
    /\ ~ret.returned
    /\ ret' = Return(extractUserChatId(arg.messageText, arg.secret))
    /\ UNCHANGED <<inputVars, directoryVars, webhookVars, user_list, pc, calls,
                   handlerVars, broadcastVars, arg>>

InitFunctions ==
    /\ arg \in Calls
    /\ env = Env("k1", FALSE, FALSE, FALSE)
    /\ user_list = Dir0
    /\ message = InvalidMessage
    /\ request = NoRequest
    /\ pcW = "none"
    /\ response = 0
    /\ pc = "idle"
    /\ InitLocals

NextFunctions ==
    \/ CallParsePostTargets
    \/ CallExtractUserChatId

SpecFunctions == InitFunctions /\ [][NextFunctions]_vars

----------------------------------------------------------------------------
(* handleWebhook *)

\* the check of the X-Telegram-Bot-Api-Secret-Token header
WebhookAuth ==
    /\ pcW = "recv"
    /\ IF env.WEBHOOK_SECRET /\ ~request.secretOk
       THEN response' = 401 /\ pcW' = "done"
       ELSE response' = response /\ pcW' = "json"
    /\ UNCHANGED <<inputVars, directoryVars, functionVars, user_list, pc, calls, handlerVars, broadcastVars>>

\* request.json() settles: a body that is not JSON is answered 500 and
\* reported to the administrator in the background; a message is handed to
\* ctx.waitUntil
WebhookParse ==
    /\ pcW = "json"
    /\ IF request.body = "bad"
       THEN /\ Issue(sendMessage(env.ADMIN_CHAT_ID, WebhookErrorText, 0))
            /\ response' = 500
            /\ pcW' = "done"
            /\ UNCHANGED pc
       ELSE /\ pc' = IF request.hasMessage THEN "h_msg" ELSE pc
            /\ pcW' = "respond"
            /\ UNCHANGED <<calls, response>>
    /\ UNCHANGED <<inputVars, directoryVars, functionVars, user_list, handlerVars, broadcastVars>>

\* a faulty variant of CanRespond: handleMessage is awaited before the return
CanRespondAfterTask(p) == p \in {"idle", "done", "failed"}

\* whether handleWebhook can return its response while the task handed to
\* ctx.waitUntil is at position p: it never awaits that task
CanRespond(p) == TRUE

WebhookRespond ==
    /\ pcW = "respond"
    /\ CanRespond(pc)
    /\ response' = 200
    /\ pcW' = "done"
    /\ UNCHANGED <<inputVars, directoryVars, functionVars, user_list, pc, calls, handlerVars, broadcastVars>>

\* the requests the transport's webhook delivers
Requests ==
    [secretOk : BOOLEAN, body : {"json", "bad"}, hasMessage : BOOLEAN]

\* the messages webhook requests carry: every kind of message, the
\* user-chosen contents left to the specification of one message
WebhookConfigs ==
    UserTrackingConfigs \cup AdminCommandConfigs \cup AdminPostConfigs
      \cup InvalidConfigs

\* a request arrives at handleWebhook
InitWebhook ==
    /\ \E c \in WebhookConfigs, r \in Requests, webhookSecret \in BOOLEAN :
          /\ (r = NoRequest /\ ~webhookSecret)
               \/ c \in InvalidConfigs \cup UserTrackingConfigs
          /\ env = [c.env EXCEPT !.WEBHOOK_SECRET = webhookSecret]
          /\ user_list = c.user_list
          /\ message = c.message
          /\ request = r
    /\ pcW = "recv"
    /\ response = 0
    /\ pc = "idle"
    /\ arg = NoCall
    /\ InitLocals

NextWebhook ==
    \/ WebhookAuth
    \/ WebhookParse
    \/ WebhookRespond
    \/ Next

\* The runtime runs handleWebhook to its return.  Nothing is assumed about
\* the progress of the task handed to ctx.waitUntil.
SpecWebhook ==
    /\ InitWebhook
    /\ [][NextWebhook]_vars
    /\ WF_vars(WebhookAuth)
    /\ WF_vars(WebhookParse)
    /\ WF_vars(WebhookRespond)

----------------------------------------------------------------------------
(* Properties *)

IsAdminMessage == message.valid /\ ToStr(message.chat_id) = env.ADMIN_CHAT_ID
IsUserMessage == message.valid /\ ToStr(message.chat_id) # env.ADMIN_CHAT_ID
Sender == ToStr(message.chat_id)
CallIndexes == 1..Len(calls)

\* C1: with a signing secret configured, the text or caption that
\* handleUserMessage forwards to the administrator yields, through
\* extractUserChatId, the sender's identifier or null, never another
\* identifier, whatever the user put into text, caption or display name.
C1_ForwardedTagNamesSender ==
    (IsUserMessage /\ env.USER_ID_SECRET \in Secrets /\ forwardResult # "none")
      => extractUserChatId(calls[1].text, env.USER_ID_SECRET) \in {Null, Sender}

\* the identifiers of private chats that tags are made for in the inputs
TaggedIds == {<<"1">>, <<"2">>}

\* whether the leftmost pattern of the signed form in text carries the
\* signature of its own identifier
FirstSignedTagValid(text, secret) ==
    LET p == FirstMatch(text, "secure")
    IN  /\ p # 0
        /\ MatchedSig(text, p) = generateUserIdSignature(MatchedId(text, p), secret)

\* the administrator replies with own text t to a message
IsTextReply ==
    /\ IsAdminMessage
    /\ message.reply_to_message.present
    /\ NotCommand(message.text)
    /\ message.text # NoText

\* one sendMessage to u that contains t, nothing to another end-user, one
\* confirmation to the administrator that names u
RoutedExactlyTo(u, t) ==
    /\ Cardinality({k \in CallIndexes : calls[k].chat_id = u}) = 1
    /\ \E k \in CallIndexes :
          /\ calls[k].chat_id = u
          /\ calls[k].method = "sendMessage"
          /\ Includes(calls[k].text, t)
    /\ \A k \in CallIndexes : calls[k].chat_id \in {u, env.ADMIN_CHAT_ID}
    /\ Cardinality({k \in CallIndexes :
                      /\ calls[k].chat_id = env.ADMIN_CHAT_ID
                      /\ calls[k].text = ReplySentText(u)}) = 1

\* C2 as stated: a reply to a message whose text contains a validly signed
\* tag for u, no delivery having failed, is delivered exactly once to u and
\* confirmed exactly once.
C2_ReplyToAnyValidTag ==
    \A u \in TaggedIds :
       (/\ pc = "done"
        /\ IsTextReply
        /\ Includes(message.reply_to_message.text,
                    createSecureUserTag(u, env.USER_ID_SECRET))
        /\ replyResult \in {"ok", "none"})
         => RoutedExactlyTo(u, message.text)

\* C2 amended: when the leftmost signed-form pattern of the replied-to text
\* is a validly signed tag for u, the reply is attempted, and when the
\* transport reports it ok, exactly one sendMessage containing t went to u,
\* nothing went to another end-user, and exactly one confirmation naming u
\* went to the administrator.
C2_ReplyToFirstValidTag ==
    (/\ pc = "done"
     /\ IsTextReply
     /\ FirstSignedTagValid(message.reply_to_message.text, env.USER_ID_SECRET))
      => /\ replyResult # "none"
         /\ replyResult = "ok"
              => RoutedExactlyTo(
                     MatchedId(message.reply_to_message.text,
                               FirstMatch(message.reply_to_message.text,
                                          "secure")),
                     message.text)

C2_Witness ==
    /\ pc = "done"
    /\ IsTextReply
    /\ FirstSignedTagValid(message.reply_to_message.text, env.USER_ID_SECRET)
    /\ Includes(message.reply_to_message.text, ForgedTag(VictimId))
    /\ replyResult = "ok"
    /\ Len(calls) = 2

\* the administrator's /post with valid targets and payload, typed as a
\* reply to a message without tag
IsReplyPost ==
    /\ IsAdminMessage
    /\ message.reply_to_message.present
    /\ ~Includes(message.reply_to_message.text, TagOpen)
    /\ ~Includes(message.reply_to_message.caption, TagOpen)
    /\ IsPost(message.text)
    /\ LET parsed == parsePostTargets(Trim(Drop(message.text, 6)))
       IN  /\ parsed.message # NoText
           /\ parsed.userIds.kind = "list"
           /\ parsed.userIds.ids # <<>>

\* C3: a /post typed as a reply to a message without tag is a media
\* broadcast: every target gets a copyMessage of the replied-to message and
\* the payload is not sent as a text broadcast.
C3_ReplyPostCopiesMedia ==
    IsReplyPost
      => /\ \A k \in CallIndexes :
               ~(/\ calls[k].method = "sendMessage"
                 /\ calls[k].chat_id # env.ADMIN_CHAT_ID
                 /\ Includes(calls[k].text, BroadcastPrefix))
         /\ (pc = "done" /\ results # NoResults)
              => LET ids == parsePostTargets(Trim(Drop(message.text, 6))).userIds.ids
                 IN  \A n \in 1..Len(ids) :
                        \E k \in CallIndexes :
                           /\ calls[k].method = "copyMessage"
                           /\ calls[k].chat_id = ids[n]
                           /\ calls[k].message_id = message.reply_to_message.message_id

\* C4: for a non-command message of the administrator that replies to
\* another one, a request goes to an end-user only when extractUserChatId on
\* the replied-to text (or caption) gives an identifier, and then to that
\* identifier; when it gives null nothing goes to an end-user and the
\* administrator is sent the warning.
C4_ReplyOnlyToExtracted ==
    (/\ IsAdminMessage
     /\ NotCommand(message.text)
     /\ message.reply_to_message.present)
      => LET replied == message.reply_to_message
             target == extractUserChatId(IF replied.text # NoText THEN replied.text
                                         ELSE replied.caption,
                                         env.USER_ID_SECRET)
         IN  /\ \A k \in CallIndexes :
                   calls[k].chat_id # env.ADMIN_CHAT_ID
                     => (target # Null /\ calls[k].chat_id = target)
             /\ (target = Null /\ pc \notin {"h_msg", "a_main"})
                  => /\ calls # <<>>
                     /\ calls[1] = sendMessage(env.ADMIN_CHAT_ID, UnrecognizedText,
                                               message.message_id)

C4_Witness ==
    /\ pc = "done"
    /\ IsAdminMessage
    /\ NotCommand(message.text)
    /\ message.reply_to_message.present
    /\ Includes(message.reply_to_message.text,
                ForgedTag(VictimId) \o LegacyTag(VictimId))
    /\ Len(calls) = 1

\* C5: when handleUserMessage has finished a message other than /start, the
\* acknowledgment was sent if the forward was delivered, a failure notice was
\* attempted if the forward threw or returned a result that is not ok, and
\* no exception left the handler.
C5_UserAlwaysNotified ==
    /\ pc # "failed"
    /\ (IsUserMessage /\ message.text # CmdStart /\ pc = "done")
         => /\ forwardResult = "ok"
                 => \E k \in CallIndexes :
                       calls[k] = sendMessage(Sender, DeliveredText, 0)
            /\ forwardResult \in {"notok", "throw"}
                 => \E k \in CallIndexes :
                       calls[k] = sendMessage(Sender, FailedText, 0)

\* C6: for an end-user message whose text is exactly /start, the welcome
\* reply is sent to that user and no request goes to the administrator:
\* nothing is forwarded and no identity tag is produced.
C6_StartNotForwarded ==
    (IsUserMessage /\ message.text = CmdStart)
      => /\ \A k \in CallIndexes :
               /\ calls[k].chat_id = Sender
               /\ calls[k].chat_id # env.ADMIN_CHAT_ID
               /\ ~Includes(calls[k].text, TagOpen)
         /\ pc \notin {"h_msg", "u_track", "u_main"}
              => /\ calls # <<>>
                 /\ calls[1] = sendMessage(Sender, WelcomeText, 0)
         /\ forwardResult = "none"

C6_Witness ==
    /\ pc = "done"
    /\ IsUserMessage
    /\ message.text = CmdStart
    /\ env.ENABLE_USER_TRACKING
    /\ Len(user_list) = 3
    /\ Len(calls) = 1

\* the /post error sub-cases: payload empty, target all without tracking,
\* explicit target list empty
IsPostErrorCase ==
    /\ IsAdminMessage
    /\ IsPost(message.text)
    /\ Trim(Drop(message.text, 6)) # NoText
    /\ LET parsed == parsePostTargets(Trim(Drop(message.text, 6)))
       IN  \/ parsed.message = NoText
           \/ parsed.userIds.kind = "all" /\ ~env.ENABLE_USER_TRACKING
           \/ parsed.userIds.kind = "list" /\ parsed.userIds.ids = <<>>

PostErrorTexts == {PostNoMessageText, PostAllNeedsTrackingText, PostNoValidIdText}

InBroadcast == pc \in {"b_begin", "b_batch", "b_wait", "b_pause", "a_report"}

\* C7 as stated: in a /post error sub-case exactly one message, the error,
\* is sent to the administrator.
C7_ExactlyOneMessage ==
    (IsPostErrorCase /\ pc = "done")
      => /\ Len(calls) = 1
         /\ calls[1].chat_id = env.ADMIN_CHAT_ID
         /\ calls[1].text \in PostErrorTexts

\* C7 amended: in a /post error sub-case exactly one sub-case error message
\* is sent to the administrator, followed only when that request throws by
\* the catch block's error notice to the administrator; broadcastMessage is
\* never called and no delivery to any recipient is attempted.
C7_PostErrorNoBroadcast ==
    IsPostErrorCase
      => /\ ~InBroadcast
         /\ targetUserIds = <<>>
         /\ results = NoResults
         /\ inflight = EmptyBag
         /\ \A k \in CallIndexes :
               /\ calls[k].chat_id = env.ADMIN_CHAT_ID
               /\ calls[k].method = "sendMessage"
               /\ ~Includes(calls[k].text, BroadcastPrefix)
         /\ pc \notin {"h_msg", "a_main"}
              => /\ calls # <<>>
                 /\ calls[1].text \in PostErrorTexts
                 /\ calls[1].reply_to_message_id = message.message_id
         /\ Len(calls) <= 2
         /\ Len(calls) = 2
              => /\ pc = "done"
                 /\ calls[2] = sendMessage(env.ADMIN_CHAT_ID, ProcessingErrorText, 0)
         /\ (pc = "a_catch") => Len(calls) = 1

C7_Witness ==
    /\ IsPostErrorCase
    /\ pc = "done"
    /\ Len(calls) = 1
    /\ calls[1].text = PostNoValidIdText

\* a /post text broadcast that goes ahead
IsTextBroadcast ==
    /\ IsAdminMessage
    /\ IsPost(message.text)
    /\ Trim(Drop(message.text, 6)) # NoText
    /\ ~IsPostErrorCase

IsDelivery(call) == StartsWith(call.text, BroadcastPrefix)
IsReport(call) == StartsWith(call.text, <<"{broadcast report} ok: ">>)

\* the number of diagnostics a text shows
DiagCount(text) == Cardinality({p \in 1..Len(text) : text[p] = DiagHead})

\* C8: in a /post text broadcast the starting acknowledgment with the target
\* count is sent to the administrator before the first delivery is issued,
\* the completion report is sent only after every delivery has settled, and
\* the report carries the success and failure counts and at most 5
\* diagnostics.
C8_BroadcastOrder ==
    IsTextBroadcast
      => LET deliveries == {k \in CallIndexes : IsDelivery(calls[k])}
             reports == {k \in CallIndexes : IsReport(calls[k])}
             parsed == parsePostTargets(Trim(Drop(message.text, 6)))
         IN  /\ (deliveries # {} \/ reports # {})
                  => /\ 1 \notin deliveries \cup reports
                     /\ calls[1].chat_id = env.ADMIN_CHAT_ID
                     /\ calls[1].text \in
                          {PostStartingText(n) :
                             n \in IF parsed.userIds.kind = "list"
                                   THEN {Len(parsed.userIds.ids)}
                                   ELSE {0, Len(user_list)}}
             /\ \A r \in reports :
                   /\ inflight = EmptyBag
                   /\ Cardinality(deliveries) = Len(targetUserIds)
                   /\ \A d \in deliveries : d < r
                   /\ results.success + results.failed
                        = (IF targetUserIds = <<>> THEN 1 ELSE Len(targetUserIds))
                   /\ calls[r].chat_id = env.ADMIN_CHAT_ID
                   /\ StartsWith(calls[r].text,
                                 <<"{broadcast report} ok: ">> \o ToStr(results.success)
                                   \o <<"\n", "failed: ">> \o ToStr(results.failed)
                                   \o <<"\n">>)
                   /\ DiagCount(calls[r].text) <= 5
                   /\ targetUserIds # <<>>
                        => DiagCount(calls[r].text)
                             = (IF results.failed < 5 THEN results.failed ELSE 5)
             /\ Cardinality(reports) <= 1
             /\ pc = "done" /\ deliveries # {} => reports # {}

C8_Witness ==
    /\ IsTextBroadcast
    /\ pc = "done"
    /\ pauses >= 1
    /\ results.failed > 5
    /\ \E k \in CallIndexes : IsReport(calls[k]) /\ DiagCount(calls[k].text) = 5

\* the number of entries of seq equal to x
Occurrences(seq, x) == Cardinality({k \in 1..Len(seq) : seq[k] = x})

\* C9: for a non-empty resolved target list of n entries, duplicates
\* counted, and every order and mix of delivery outcomes, broadcastMessage
\* issues exactly one delivery per list entry, a failure stopping no other
\* delivery, and ends with success + failed = n and one diagnostic per
\* failed entry.
C9_OneDeliveryPerTarget ==
    targetUserIds # <<>>
      => LET deliveries == SelectSeq(calls, IsDelivery)
             n == Len(targetUserIds)
         IN  /\ Len(deliveries) <= n
             /\ \A k \in 1..Len(deliveries) :
                   deliveries[k] = DeliveryCall(targetUserIds[k], env, postMessage,
                                                isMedia, mediaMessageId)
             /\ results.success + results.failed + BagCardinality(inflight)
                  = Len(deliveries)
             /\ Len(results.errors) = results.failed
             /\ \A k \in 1..Len(results.errors) :
                   \E t \in 1..n :
                      /\ results.errors[k] = Diagnostic(targetUserIds[t])
                      /\ Occurrences(results.errors, results.errors[k])
                           <= Occurrences(targetUserIds, targetUserIds[t])
             /\ pc \in {"a_report", "a_catch", "done"}
                  => /\ Len(deliveries) = n
                     /\ results.success + results.failed = n

C9_Witness ==
    /\ pc = "done"
    /\ Len(targetUserIds) > batchSize
    /\ results.failed >= 2
    /\ results.success >= 2
    /\ results.errors[1] # results.errors[2]
    /\ pauses = 1

\* C10: every webhook request is answered whatever happens while its
\* message is processed, and a request that passed the secret check and
\* carries a message is answered 200 without waiting for handleMessage: no
\* progress of the task handed to ctx.waitUntil is needed for the response.
C10_AlwaysAnswered ==
    /\ <>(response # 0)
    /\ (pcW = "respond") ~> (response = 200)

C10_Witness ==
    /\ response = 200
    /\ request.hasMessage
    /\ pc \notin {"idle", "done"}
    /\ forwardResult = "throw"

----------------------------------------------------------------------------
(* The directory *)

\* the records of a list, and the chats they are about
Records(users) == {users[k] : k \in 1..Len(users)}
ChatsOf(users) == {users[k].chatId : k \in 1..Len(users)}

\* the step in which the invocation w has its put settled
IsPutStep(w) == writers[w].pc = "put" /\ writers'[w].pc = "idle"

\* C11: in a sequence of upserts, whatever the store operations give, an
\* upsert that does not take the directory above the cap leaves every stored
\* record in place, except the record of the chat it refreshes.
C11_RecordsKeptBelowCap ==
    [][\A w \in Writers :
          (/\ IsPutStep(w)
           /\ Cardinality(ChatsOf(user_list) \cup {writers[w].chatId}) <= MaxUsers)
          => \A u \in Records(user_list) :
                u.chatId # writers[w].chatId => u \in Records(user_list')]_vars

\* C12: an upsert of a new chat into a directory of exactly MaxUsers records,
\* the list being read and written by the store, leaves exactly MaxUsers
\* records with the new one among them, and removes a single record, than
\* which no stored or remaining record was active earlier.
C12_EvictsLeastRecentlyActive ==
    [][\A w \in Writers :
          (/\ IsPutStep(w)
           /\ Len(user_list) = MaxUsers
           /\ writers[w].chatId \notin ChatsOf(user_list)
           /\ writers[w].users = user_list
           /\ ~writers'[w].failed)
          => /\ Len(user_list') = MaxUsers
             /\ \E u \in Records(user_list') :
                   u.chatId = writers[w].chatId /\ u.lastActive = writers[w].t
             /\ LET removed == Records(user_list) \ Records(user_list')
                IN  /\ Cardinality(removed) = 1
                    /\ \A r \in removed :
                         /\ \A u \in Records(user_list) : u.lastActive >= r.lastActive
                         /\ \A u \in Records(user_list') : u.lastActive >= r.lastActive]_vars

\* an eviction has happened: the full directory has the new chat 3000 and
\* has lost chat 671, the least recently active
C12_Witness ==
    /\ Len(user_list) = MaxUsers
    /\ 3000 \in ChatsOf(user_list)
    /\ 671 \notin ChatsOf(user_list)
    /\ \A w \in Writers : writers[w].pc = "idle"

\* C20: whatever the interleaving of the reads and writes of concurrent
\* upserts, the stored directory has at most MaxUsers records and no two of
\* them are about the same chat.
C20_DirectoryCappedAndUnique ==
    /\ Len(user_list) <= MaxUsers
    /\ Cardinality(ChatsOf(user_list)) = Len(user_list)

\* an upsert has written a full directory while another one, started
\* before, still holds the list it read and is about to write it
C20_Witness ==
    /\ Len(user_list) = MaxUsers
    /\ 3000 \in ChatsOf(user_list)
    /\ \E w \in Writers :
          /\ writers[w].pc = "put"
          /\ Len(writers[w].users) = MaxUsers
          /\ writers[w].users # user_list

----------------------------------------------------------------------------
(* parsePostTargets *)

IsParseCall == arg.fn = "parsePostTargets" /\ ret.returned

\* the positions of character c in s, and the k-th of them
PositionsOf(s, c) == {p \in 1..Len(s) : s[p] = c}
NthOf(ps, k) == CHOOSE p \in ps : Cardinality({q \in ps : q < p}) = k - 1

\* the pieces of token between its commas, in order
PiecesOf(token) ==
    LET commas == PositionsOf(token, ",")
        n == Cardinality(commas)
        from(k) == IF k = 1 THEN 1 ELSE NthOf(commas, k - 1) + 1
        to(k) == IF k = n + 1 THEN Len(token) ELSE NthOf(commas, k) - 1
    IN  [k \in 1..(n + 1) |-> SubSeq(token, from(k), to(k))]

\* the digits of a piece that is digits between white space, else NoText
DigitsIn(piece) ==
    LET a == RunLen(piece, 1, SpaceChars)
        d == RunLen(piece, a + 1, DigitChars)
        b == RunLen(piece, a + d + 1, SpaceChars)
    IN  IF d >= 1 /\ a + d + b = Len(piece) THEN SubSeq(piece, a + 1, a + d)
        ELSE NoText

\* the sequence s without its entries equal to NoText
RECURSIVE NonEmpty(_)
NonEmpty(s) ==
    IF s = <<>> THEN <<>>
    ELSE (IF Head(s) = NoText THEN <<>> ELSE <<Head(s)>>) \o NonEmpty(Tail(s))

\* C13: parsePostTargets returns no target and no payload for a text without
\* space; else the payload is what follows the first space, and the targets
\* are 'all' when the first token is all, else the pieces of the first token
\* that are digits once trimmed, in order.
C13_ParsePostTargets ==
    IsParseCall =>
       LET t == arg.commandText
           spaces == PositionsOf(t, " ")
       IN  IF spaces = {}
           THEN ret.value = [userIds |-> ListTargets(<<>>), message |-> NoText]
           ELSE LET first == NthOf(spaces, 1)
                    token == SubSeq(t, 1, first - 1)
                    pieces == PiecesOf(token)
                IN  /\ ret.value.message = SubSeq(t, first + 1, Len(t))
                    /\ ret.value.userIds =
                         IF token = <<"a", "l", "l">> THEN AllTargets
                         ELSE ListTargets(NonEmpty(
                                  [k \in 1..Len(pieces) |-> DigitsIn(pieces[k])]))

\* a call whose first token has a piece that is dropped and a piece that is
\* kept
C13_Witness ==
    /\ IsParseCall
    /\ arg.commandText = <<"x", ",", "1", " ">>
    /\ ret.value = [userIds |-> ListTargets(<< <<"1">> >>), message |-> NoText]

----------------------------------------------------------------------------
(* extractUserChatId *)

IsExtractCall == arg.fn = "extractUserChatId" /\ ret.returned

\* the identifiers and the texts around a tag in the calls
TagIds == {<<"1">>, ToStr(-3)}
PlainTexts == {NoText, Hi}

\* C14: a text that contains a tag signed for i1 with a secret s1, and no
\* tag signed with the secret s2 # s1 it is verified with, gives null, also
\* when the text contains a legacy tag.
C14_OtherSecretRejected ==
    IsExtractCall =>
       \A i1 \in TagIds, s1 \in Secrets :
          (/\ arg.secret \in Secrets \ {s1}
           /\ Includes(arg.messageText, createSecureUserTag(i1, s1))
           /\ \A id \in TagIds :
                 ~Includes(arg.messageText, createSecureUserTag(id, arg.secret)))
          => ret.value = Null

\* C15: a text that embeds the tag signed for i with the secret s in plain
\* text gives i when verified with s.
C15_RoundTrip ==
    IsExtractCall =>
       \A id \in TagIds, before \in PlainTexts, after \in PlainTexts :
          (/\ arg.secret \in Secrets
           /\ arg.messageText = before \o createSecureUserTag(id, arg.secret) \o after)
          => ret.value = id

\* the signed form [USER:<digits>:<16 hex>] and the legacy form
\* [USER:<digits>] read at position p of s, and the digits they name
SignedFormAt(s, p) ==
    LET d == RunLen(s, p + 6, DigitChars)
    IN  /\ MatchAt(s, p, TagOpen)
        /\ d >= 1
        /\ MatchAt(s, p + 6 + d, <<":">>)
        /\ RunLen(s, p + 7 + d, HexChars) >= SigLen
        /\ MatchAt(s, p + 7 + d + SigLen, <<"]">>)
LegacyFormAt(s, p) ==
    LET d == RunLen(s, p + 6, DigitChars)
    IN  MatchAt(s, p, TagOpen) /\ d >= 1 /\ MatchAt(s, p + 6 + d, <<"]">>)
DigitsAt(s, p) == SubSeq(s, p + 6, p + 5 + RunLen(s, p + 6, DigitChars))

\* a legacy form that is not immediately followed by a colon or a word
\* character
FreeLegacyFormAt(s, p) ==
    LET q == p + 7 + RunLen(s, p + 6, DigitChars)
    IN  LegacyFormAt(s, p) /\ (q <= Len(s) => s[q] \notin WordChars \cup {":"})

\* the leftmost position of s at which At holds, 0 for none
Leftmost(ps) == IF ps = {} THEN 0 ELSE CHOOSE p \in ps : \A q \in ps : p <= q
SignedForms(s) == {p \in 1..Len(s) : SignedFormAt(s, p)}
LegacyForms(s) == {p \in 1..Len(s) : LegacyFormAt(s, p)}
FreeLegacyForms(s) == {p \in 1..Len(s) : FreeLegacyFormAt(s, p)}

\* what the signed forms of s decide: the first one, when its signature is
\* valid
SignedResult(s, secret) ==
    LET p == Leftmost(SignedForms(s))
        d == RunLen(s, p + 6, DigitChars)
        id == DigitsAt(s, p)
    IN  IF SubSeq(s, p + 7 + d, p + 6 + d + SigLen)
             = generateUserIdSignature(id, secret)
        THEN id ELSE Null

\* C16, as claimed: a text with a legacy form gives the identifier of its
\* first legacy form exactly when it has no signed form; with a signed form
\* the result is the one the signed forms decide.
C16_LegacyIffNoSigned ==
    IsExtractCall =>
       LET s == arg.messageText
       IN  LegacyForms(s) # {} =>
              IF SignedForms(s) = {}
              THEN ret.value = DigitsAt(s, Leftmost(LegacyForms(s)))
              ELSE ret.value = SignedResult(s, arg.secret)

\* C16: a text without signed form gives the identifier of its first legacy
\* form that is not immediately followed by a colon or a word character,
\* and null when it has none; with a signed form the result is the one the
\* signed forms decide, whatever legacy forms the text has.
C16_FreeLegacyIffNoSigned ==
    IsExtractCall =>
       LET s == arg.messageText
       IN  IF SignedForms(s) # {} THEN ret.value = SignedResult(s, arg.secret)
           ELSE IF FreeLegacyForms(s) # {}
                THEN ret.value = DigitsAt(s, Leftmost(FreeLegacyForms(s)))
                ELSE ret.value = Null

\* the fallback was used: a text with a legacy form and no signed form gave
\* the identifier of the legacy form
C16_Witness ==
    /\ IsExtractCall
    /\ arg.messageText = Hi \o LegacyTag(<<"2">>)
    /\ arg.secret = "k1"
    /\ ret.value = <<"2">>

----------------------------------------------------------------------------
(* Properties of the batches of broadcastMessage *)

\* the deliveries issued so far, in the order they were started
Deliveries == SelectSeq(calls, IsDelivery)

\* the recipients of the deliveries from position from + 1 on
RecipientsFrom(deliveries, from) ==
    [k \in 1..(Len(deliveries) - from) |-> deliveries[from + k].chat_id]

\* C17: broadcastMessage partitions the targets into consecutive batches of
\* at most 10 in list order and runs the batches strictly one after the
\* other: the deliveries of a batch are started only when no delivery is in
\* flight and every earlier delivery has settled, so at most 10 deliveries
\* are ever in flight; inside a batch the deliveries settle in any order.
C17_BatchesSequential ==
    /\ [](targetUserIds # <<>>
            => /\ BagCardinality(inflight) <= batchSize
               /\ i % batchSize = 0
               /\ \A c \in BagToSet(inflight) :
                     CopiesIn(c, inflight) <= Occurrences(Batch(targetUserIds, i), c)
               /\ RecipientsFrom(Deliveries, 0)
                    = SubSeq(targetUserIds, 1, Len(Deliveries))
               /\ (pc = "b_batch") => (Len(Deliveries) = i /\ inflight = EmptyBag)
               /\ (pc \in {"b_wait", "b_pause"})
                    => Len(Deliveries) = i + Len(Batch(targetUserIds, i)))
    /\ [][Len(Deliveries') > Len(Deliveries)
            => /\ inflight = EmptyBag
               /\ results.success + results.failed = Len(Deliveries)
               /\ Len(Deliveries) % batchSize = 0
               /\ Len(Deliveries') - Len(Deliveries) <= batchSize
               /\ RecipientsFrom(Deliveries', Len(Deliveries))
                    = Batch(targetUserIds, Len(Deliveries))
               /\ inflight' = SeqToBag(Batch(targetUserIds, Len(Deliveries)))]_vars

\* the second batch is in flight after the first settled out of list order:
\* the third target failed before the first one did
C17_Witness ==
    /\ pc = "b_wait"
    /\ i = batchSize
    /\ inflight # EmptyBag
    /\ results.success + results.failed = batchSize
    /\ Len(results.errors) >= 2
    /\ targetUserIds[1] = <<"2">>
    /\ targetUserIds[3] = <<"1">>
    /\ results.errors[1] = Diagnostic(<<"1">>)
    /\ results.errors[2] = Diagnostic(<<"2">>)

\* ceil(n / batchSize)
BatchCount(n) == (n + batchSize - 1) \div batchSize

\* C18: a broadcast over n >= 1 targets runs ceil(n/10) batches and
\* ceil(n/10) - 1 pacing delays, also when n is a multiple of 10: a delay
\* follows every batch but the last, it starts when its batch has settled
\* completely, and the next batch starts when it has elapsed.
C18_BatchesAndDelays ==
    /\ [](targetUserIds # <<>>
            => LET n == Len(targetUserIds)
               IN  /\ (pc \in {"b_batch", "b_wait", "b_pause"})
                        => (pauses = i \div batchSize /\ i < n)
                   /\ (pc = "b_pause")
                        => /\ inflight = EmptyBag
                           /\ results.success + results.failed = Len(Deliveries)
                           /\ Len(Deliveries) = i + batchSize
                           /\ Len(Deliveries) < n
                   /\ (pc \notin {"b_batch", "b_wait", "b_pause"})
                        => /\ i \div batchSize = BatchCount(n)
                           /\ pauses = BatchCount(n) - 1
                           /\ Len(Deliveries) = n
                           /\ inflight = EmptyBag)
    /\ [][pauses' # pauses
            => /\ pauses' = pauses + 1
               /\ pc = "b_pause"
               /\ pc' = "b_batch"
               /\ inflight = EmptyBag
               /\ Deliveries' = Deliveries]_vars

\* a broadcast over 20 targets has returned: two batches, one delay
C18_Witness ==
    /\ pc = "done"
    /\ Len(targetUserIds) = 2 * batchSize
    /\ results.success + results.failed = 2 * batchSize
    /\ i = 2 * batchSize
    /\ pauses = 1

\* broadcastMessage resolves its targets in this step
IsResolveStep == pc = "b_begin" /\ pc' # "b_begin"

\* C19: broadcastMessage called with 'all' whose directory lookup yields no
\* user (the store is unbound, the read fails, or the list is empty) returns
\* success 0, failed 1 and the one diagnostic that no user was found, and
\* issues no delivery.
C19_AllWithoutUsers ==
    /\ [][(IsResolveStep /\ userIds.kind = "all")
            => /\ (~env.USER_STORAGE \/ user_list = <<>>) => targetUserIds' = <<>>
               /\ (targetUserIds' = <<>>)
                    => /\ results' = [success |-> 0, failed |-> 1,
                                       errors |-> <<NoUsersFound>>]
                       /\ pc' = "a_report"
                       /\ calls' = calls
                       /\ inflight' = EmptyBag]_vars
    /\ []((userIds.kind = "all" /\ targetUserIds = <<>>)
            => /\ Deliveries = <<>>
               /\ inflight = EmptyBag
               /\ results \in {NoResults,
                                [success |-> 0, failed |-> 1,
                                 errors |-> <<NoUsersFound>>]})

\* the read of a non-empty directory failed: the broadcast to all has
\* returned the synthetic failure and the report was sent
C19_Witness ==
    /\ pc = "done"
    /\ userIds.kind = "all"
    /\ env.USER_STORAGE
    /\ user_list # <<>>
    /\ targetUserIds = <<>>
    /\ results = [success |-> 0, failed |-> 1, errors |-> <<NoUsersFound>>]
    /\ Len(calls) = 2
    /\ IsReport(calls[2])

----------------------------------------------------------------------------
(* Properties of the end-user branch *)

\* the program positions of handleMessage and handleUserMessage
UserPositions == {"h_msg", "u_track", "u_main", "u_ack", "u_catch", "done"}

\* the chats the requests issued so far deliver to
Recipients == {calls[k].chat_id : k \in CallIndexes}

\* C21: a message from a chat other than the administrator's, whatever its
\* text (/post, /status, /users, identity tags) and whether or not it
\* replies to a message, makes handleMessage deliver only to the
\* administrator and to the chat the message came from: no broadcast is run,
\* no other chat receives anything, and the message is never handled as a
\* reply of the administrator.
C21_UserBranchIsolated ==
    IsUserMessage
      => /\ pc \in UserPositions
         /\ Recipients \subseteq {env.ADMIN_CHAT_ID, Sender}
         /\ \A k \in CallIndexes :
               /\ ~IsDelivery(calls[k])
               /\ ~IsReport(calls[k])
               /\ ~StartsWith(calls[k].text, ReplyPrefix)
               /\ (calls[k].chat_id = env.ADMIN_CHAT_ID)
                    => (k = 1 /\ calls[k] = ForwardCall(message, env, now))
         /\ userIds = ListTargets(<<>>)
         /\ targetUserIds = <<>>
         /\ inflight = EmptyBag
         /\ results = NoResults
         /\ pauses = 0
         /\ replyResult = "none"
         /\ userChatId = Null

\* the administrator's account wrote /post 1 hi in a group as a reply to a
\* forwarded message of chat 1: the text was relayed to the administrator's
\* chat and acknowledged in the group
C21_Witness ==
    /\ pc = "done"
    /\ message.chat_id = -3
    /\ message.from_id = AdminChat
    /\ message.text = PostText(<<"1">>, Hi)
    /\ message.reply_to_message = TaggedReply
    /\ Len(calls) = 2
    /\ calls[1].chat_id = env.ADMIN_CHAT_ID
    /\ calls[2] = sendMessage(ToStr(-3), DeliveredText, 0)

====
